---- MODULE Spec2Model ----
(***************************************************************************)
(* Payment settlement workflow of the banking microservices.               *)
(*                                                                         *)
(* The Payment API (src/payment_api/function_app.py) validates a payment   *)
(* request, resolves the account, the payment method and the beneficiary   *)
(* in the document store, checks the balance, upserts the new balance and  *)
(* posts a transaction to the Transaction API, which upserts it into the   *)
(* transactions container.  Every store call and the HTTP post is one      *)
(* atomic step of a request worker; workers interleave freely.             *)
(***************************************************************************)
EXTENDS Integers, FiniteSets, Sequences, TLC

\* ------------------------------------------------------------------ bounds
\* Number of settlement requests; each is handled end-to-end by one worker.
NWorkers == 2
\* Largest initial account balance.
MaxBalance == 2
\* Largest amount of a payment request (0 is the rejected, non-positive amount).
MaxAmount == 1

Workers == 1..NWorkers

\* ------------------------------------------------------------- store content
\* Python None.
None == [none |-> TRUE]

\* Ids of seeded accounts, and an id no account has.
AccountIds == {"1010", "1020"}
UnknownAccountId == "9999"

\* The payment-methods container: one document per account of AccountIds.
PaymentMethods ==
    { [id |-> "345678",   accountId |-> "1010", type |-> "BankTransfer"],
      [id |-> "46748576", accountId |-> "1020", type |-> "DirectDebit"] }

\* The beneficiaries container as the seed script writes it.
SeedBeneficiaries ==
    { [id |-> "3", accountId |-> "1010", fullName |-> "Sarah TheAccountant",
       bankCode |-> "555123456", bankName |-> "Deutsche Bank"],
      [id |-> "5", accountId |-> "1020", fullName |-> "Lisa TheDoctor",
       bankCode |-> "111222333", bankName |-> "BNP Paribas"] }

\* The same beneficiaries with the keys process_payment reads.
NamedBeneficiaries ==
    { [id |-> "3", accountId |-> "1010", name |-> "Sarah TheAccountant",
       bankReference |-> "555123456"],
      [id |-> "5", accountId |-> "1020", name |-> "Lisa TheDoctor",
       bankReference |-> "111222333"] }

\* A balance as the account document holds it is [repr, value]: the seed script
\* stores a JSON string (repr "str"), update_account_balance stores the JSON
\* number new_balance (repr "num").
NumBalance(n) == [repr |-> "num", value |-> n]

\* ------------------------------------------------------------------ requests
\* Bodies of POST /payments: the account is one of the store or an unknown one,
\* the payment method and the beneficiary are the account's own or another's.
AllPaymentRequests(stored) ==
    [ accountId       : stored \cup {UnknownAccountId},
      paymentMethodId : {m.id : m \in PaymentMethods},
      beneficiaryId   : {b.id : b \in SeedBeneficiaries},
      amount          : 0..MaxAmount,
      description     : {""} ]

\* The requests the workers receive.  A request that is rejected for its amount
\* or for its account before any other field is read stands for all requests
\* rejected there: its later fields are fixed.
PaymentRequests(stored) ==
    {r \in AllPaymentRequests(stored) :
        (r.amount = 0 \/ r.accountId = UnknownAccountId)
            => /\ r.paymentMethodId = "345678"
               /\ r.beneficiaryId = "3"
               /\ r.amount <= 1}

\* -------------------------------------------------------------------- state
VARIABLES
    accounts,       \* accounts container: account id -> balance field of the document
    accounts0,      \* the accounts container as it was before the first request
    beneficiaries,  \* beneficiaries container (set of documents)
    journal,        \* transactions container (set of documents)
    now,            \* wall clock read by datetime.utcnow()
    pc,             \* worker -> position in process_payment_endpoint
    req,            \* worker -> PaymentRequest being processed
    loc,            \* worker -> local variables of process_payment
    outcome,        \* worker -> HTTP response of the endpoint
    hist,           \* worker -> what the request has observed and issued so far
    call,           \* the last request served by the Transaction API, the
                    \* container payment service or the Inventory API, with
                    \* its response
    cosmos,         \* the store client of one process: class attribute
                    \* _instance, module global, the objects' fields and the
                    \* position of each thread inside get_cosmos_client
    inventory       \* inventory-items and reservations containers

vars == <<accounts, accounts0, beneficiaries, journal, now, pc, req, loc, outcome,
          hist, call, cosmos, inventory>>

\* The store client of a process of `variant` before any call reached it.
NoClient(variant) ==
    [variant |-> variant, instance |-> 0, global |-> 0, client |-> {},
     database |-> {}, at |-> [t \in Workers |-> "out"],
     self |-> [t \in Workers |-> 0], handed |-> {}, initialised |-> 0,
     failed |-> FALSE]

\* The inventory store before it is seeded.
NoInventory ==
    [items |-> << >>, reservations |-> {}, at |-> [p \in Workers |-> "idle"],
     request |-> [p \in Workers |-> None]]

NoLocals ==
    [account |-> None, payment_method |-> None, beneficiary |-> None,
     new_balance |-> None, upd_account |-> None, transaction_data |-> None]


\* upserts: account upserts issued; posts: posts to the Transaction API issued;
\* debit_read: the balance update_account_balance found in the store;
\* cancelled_at: the position of the worker when its caller gave the request
\* up ("" while the caller waits).
NoHistory == [upserts |-> 0, posts |-> 0, debit_read |-> None, cancelled_at |-> ""]

NoOutcome == [status |-> 0, error |-> "", raised_in |-> "",
              newBalance |-> None, transaction |-> None]

\* No request served yet.  variant: the service that served the request; op:
\* the operation; account_id, limit, term, request: its arguments; status,
\* body: the response; raised: the exception behind it; store_calls: calls issued to the store (for a payment:
\* posts to the Transaction API); again: the request repeats the one served
\* just before, which was answered with success.
NoCall ==
    [variant |-> "", op |-> "", account_id |-> "", limit |-> None, term |-> "",
     request |-> None, status |-> 0, raised |-> "", body |-> <<>>,
     store_calls |-> 0, again |-> FALSE]

\* ------------------------------------------------------------ store queries
\* The account query without its WHERE clause: the first account of the
\* container, whatever id is asked for.
get_account_unfiltered(account_id) ==
    IF DOMAIN accounts # {}
    THEN LET first == CHOOSE a \in DOMAIN accounts : TRUE
         IN  [id |-> first, balance |-> accounts[first]]
    ELSE None

\* SELECT * FROM c WHERE c.id = @accountId (cross-partition); first item or None.
get_account_by_id(account_id) ==
    IF account_id \in DOMAIN accounts
    THEN [id |-> account_id, balance |-> accounts[account_id]]
    ELSE None

\* SELECT * FROM c WHERE c.id = @paymentMethodId AND c.accountId = @accountId.
get_payment_method_by_id(payment_method_id, account_id) ==
    LET items == {m \in PaymentMethods :
                    m.id = payment_method_id /\ m.accountId = account_id}
    IN  IF items = {} THEN None ELSE CHOOSE m \in items : TRUE

\* SELECT * FROM c WHERE c.id = @beneficiaryId AND c.accountId = @accountId.
get_beneficiary_by_id(beneficiary_id, account_id) ==
    LET items == {b \in beneficiaries :
                    b.id = beneficiary_id /\ b.accountId = account_id}
    IN  IF items = {} THEN None ELSE CHOOSE b \in items : TRUE

\* Transaction API, create_transaction, the document it builds: the body keeps
\* its timestamp when it has one and gets the clock's otherwise, and its
\* accountId is set to the account id of the path.
created_item(account_id, transaction_data) ==
    LET given == DOMAIN transaction_data
        keys  == given \cup {"timestamp", "accountId"}
    IN  [k \in keys |->
            IF k = "accountId" THEN account_id
            ELSE IF k = "timestamp" /\ k \notin given THEN now
            ELSE transaction_data[k]]

\* Transaction API, create_transaction: the document is upserted, replacing
\* the document of the same id in the partition of account_id, if any.
create_transaction(account_id, transaction_data) ==
    LET item == created_item(account_id, transaction_data)
    IN  {t \in journal : ~(t.accountId = account_id /\ t.id = item.id)} \cup {item}

\* Entries of one account's partition.
JournalOf(account_id) == {t \in journal : t.accountId = account_id}

\* ------------------------------------------------------- endpoint responses
\* Exceptions that are ValueError (or a subclass): answered 400 by the endpoint.
\* The JSONDecodeError that response.json() raises on a body that is not JSON
\* is one of them.
ValueErrors ==
    {"ValidationError", "Account not found", "Payment method not found",
     "Beneficiary not found", "Insufficient balance", "JSONDecodeError"}

\* Every other exception: answered 500.
OtherErrors == {"TypeError", "KeyError", "CosmosHttpResponseError", "RequestException"}

\* except ValueError -> 400, except Exception -> 500.
StatusOf(error) == IF error \in ValueErrors THEN 400 ELSE 500

\* The worker leaves process_payment_endpoint with an error response.
Raise(p, error, raised_in) ==
    /\ pc' = [pc EXCEPT ![p] = "done"]
    /\ outcome' = [outcome EXCEPT ![p] =
                     [status |-> StatusOf(error), error |-> error,
                      raised_in |-> raised_in, newBalance |-> None,
                      transaction |-> None]]
    /\ loc' = [loc EXCEPT ![p] = NoLocals]

\* ------------------------------------------------------------------- Init
\* Layouts of the stored documents: as the seed script writes them (string
\* balances, "fullName"/"bankCode" keys); with numeric balances; with numeric
\* balances and the keys process_payment reads.
StoreLayouts ==
    { [balance |-> "str", beneficiaries |-> SeedBeneficiaries],
      [balance |-> "num", beneficiaries |-> SeedBeneficiaries],
      [balance |-> "num", beneficiaries |-> NamedBeneficiaries] }

\* The store holds the accounts `ids` with any balances, in one of the layouts.
InitStore(ids) ==
    /\ \E layout \in StoreLayouts : \E f \in [ids -> 0..MaxBalance] :
          /\ accounts = [a \in ids |-> [repr |-> layout.balance, value |-> f[a]]]
          /\ beneficiaries = layout.beneficiaries
    /\ accounts0 = accounts
    /\ journal = {}
    /\ now = 0
    /\ pc = [p \in Workers |-> "idle"]
    /\ req = [p \in Workers |-> None]
    /\ loc = [p \in Workers |-> NoLocals]
    /\ outcome = [p \in Workers |-> NoOutcome]
    /\ hist = [p \in Workers |-> NoHistory]
    /\ call = NoCall
    /\ cosmos = NoClient("transaction")
    /\ inventory = NoInventory

Init == InitStore({"1010"})

\* ---------------------------------------------------------------- actions
\* process_payment_endpoint: parse the body and build the PaymentRequest
\* (amount: gt=0); a rejected body is a ValueError, answered 400.
Receive(p) ==
    /\ pc[p] = "idle"
    /\ \E r \in PaymentRequests(DOMAIN accounts) :
         /\ req' = [req EXCEPT ![p] = r]
         /\ IF r.amount > 0
            THEN /\ pc' = [pc EXCEPT ![p] = "get_account"]
                 /\ UNCHANGED <<outcome, loc>>
            ELSE Raise(p, "ValidationError", "process_payment_endpoint")
    /\ UNCHANGED <<accounts, accounts0, beneficiaries, journal, now, hist, call, cosmos, inventory>>

\* process_payment step 1: get_account_by_id.
GetAccount(p) ==
    /\ pc[p] = "get_account"
    /\ \E ok \in BOOLEAN :
         IF ~ok THEN Raise(p, "CosmosHttpResponseError", "get_account_by_id")
         ELSE LET account == get_account_by_id(req[p].accountId) IN
              IF account = None
              THEN Raise(p, "Account not found", "process_payment")
              ELSE /\ loc' = [loc EXCEPT ![p].account = account]
                   /\ pc' = [pc EXCEPT ![p] = "get_payment_method"]
                   /\ UNCHANGED outcome
    /\ UNCHANGED <<accounts, accounts0, beneficiaries, journal, now, req, hist, call, cosmos, inventory>>

\* process_payment step 2: get_payment_method_by_id.
GetPaymentMethod(p) ==
    /\ pc[p] = "get_payment_method"
    /\ \E ok \in BOOLEAN :
         IF ~ok THEN Raise(p, "CosmosHttpResponseError", "get_payment_method_by_id")
         ELSE LET payment_method ==
                    get_payment_method_by_id(req[p].paymentMethodId, req[p].accountId)
              IN
              IF payment_method = None
              THEN Raise(p, "Payment method not found", "process_payment")
              ELSE /\ loc' = [loc EXCEPT ![p].payment_method = payment_method]
                   /\ pc' = [pc EXCEPT ![p] = "get_beneficiary"]
                   /\ UNCHANGED outcome
    /\ UNCHANGED <<accounts, accounts0, beneficiaries, journal, now, req, hist, call, cosmos, inventory>>

\* The balance check left out: every numeric balance passes.
SufficientBalanceUnchecked(account, amount) ==
    IF account.balance.repr = "str" THEN "TypeError" ELSE "ok"

\* process_payment step 4, the balance check on the account read in step 1:
\* a str balance compared with the float amount is a TypeError.
SufficientBalance(account, amount) ==
    IF account.balance.repr = "str" THEN "TypeError"
    ELSE IF account.balance.value < amount THEN "Insufficient balance"
    ELSE "ok"

\* The debit issued before the beneficiary is resolved: a request whose
\* beneficiary is unknown has already written the account when it is rejected.
GetBeneficiaryAfterDebit(p) ==
    /\ pc[p] = "get_beneficiary"
    /\ \E ok \in BOOLEAN :
         IF ~ok THEN /\ Raise(p, "CosmosHttpResponseError", "get_beneficiary_by_id")
                     /\ UNCHANGED <<accounts, hist>>
         ELSE LET beneficiary ==
                    get_beneficiary_by_id(req[p].beneficiaryId, req[p].accountId)
                  check == SufficientBalance(loc[p].account, req[p].amount)
              IN
              IF check # "ok"
              THEN /\ Raise(p, check, "process_payment")
                   /\ UNCHANGED <<accounts, hist>>
              ELSE IF beneficiary = None
              THEN /\ accounts' = [accounts EXCEPT ![req[p].accountId] =
                         NumBalance(loc[p].account.balance.value - req[p].amount)]
                   /\ hist' = [hist EXCEPT ![p].upserts = @ + 1]
                   /\ Raise(p, "Beneficiary not found", "process_payment")
              ELSE /\ loc' = [loc EXCEPT
                                ![p].beneficiary = beneficiary,
                                ![p].new_balance =
                                    loc[p].account.balance.value - req[p].amount]
                   /\ pc' = [pc EXCEPT ![p] = "update_read"]
                   /\ UNCHANGED <<outcome, accounts, hist>>
    /\ UNCHANGED <<accounts0, beneficiaries, journal, now, req, call, cosmos, inventory>>

\* The balance check made before the beneficiary is looked at: a request that
\* fails both is rejected for its balance.
GetBeneficiaryFundsFirst(p) ==
    /\ pc[p] = "get_beneficiary"
    /\ \E ok \in BOOLEAN :
         IF ~ok THEN Raise(p, "CosmosHttpResponseError", "get_beneficiary_by_id")
         ELSE LET beneficiary ==
                    get_beneficiary_by_id(req[p].beneficiaryId, req[p].accountId)
                  check == SufficientBalance(loc[p].account, req[p].amount)
              IN
              IF check # "ok"
              THEN Raise(p, check, "process_payment")
              ELSE IF beneficiary = None
              THEN Raise(p, "Beneficiary not found", "process_payment")
              ELSE /\ loc' = [loc EXCEPT
                                ![p].beneficiary = beneficiary,
                                ![p].new_balance =
                                    loc[p].account.balance.value - req[p].amount]
                   /\ pc' = [pc EXCEPT ![p] = "update_read"]
                   /\ UNCHANGED outcome
    /\ UNCHANGED <<accounts, accounts0, beneficiaries, journal, now, req, hist, call, cosmos, inventory>>

\* process_payment steps 3 and 4: get_beneficiary_by_id, then the balance
\* check and new_balance, which touch no shared state.
GetBeneficiary(p) ==
    /\ pc[p] = "get_beneficiary"
    /\ \E ok \in BOOLEAN :
         IF ~ok THEN Raise(p, "CosmosHttpResponseError", "get_beneficiary_by_id")
         ELSE LET beneficiary ==
                    get_beneficiary_by_id(req[p].beneficiaryId, req[p].accountId)
                  check == SufficientBalance(loc[p].account, req[p].amount)
              IN
              IF beneficiary = None
              THEN Raise(p, "Beneficiary not found", "process_payment")
              ELSE IF check # "ok"
              THEN Raise(p, check, "process_payment")
              ELSE /\ loc' = [loc EXCEPT
                                ![p].beneficiary = beneficiary,
                                ![p].new_balance =
                                    loc[p].account.balance.value - req[p].amount]
                   /\ pc' = [pc EXCEPT ![p] = "update_read"]
                   /\ UNCHANGED outcome
    /\ UNCHANGED <<accounts, accounts0, beneficiaries, journal, now, req, hist, call, cosmos, inventory>>

\* update_account_balance, first half: get_account_by_id reads the account
\* document again; the balance it carries is overwritten before the upsert.
UpdateRead(p) ==
    /\ pc[p] = "update_read"
    /\ \E ok \in BOOLEAN :
         IF ~ok THEN /\ Raise(p, "CosmosHttpResponseError", "update_account_balance")
                     /\ UNCHANGED hist
         ELSE LET account == get_account_by_id(req[p].accountId) IN
              IF account = None
              THEN /\ Raise(p, "Account not found", "update_account_balance")
                   /\ UNCHANGED hist
              ELSE /\ loc' = [loc EXCEPT ![p].upd_account =
                                [account EXCEPT !.balance = NumBalance(loc[p].new_balance)]]
                   /\ hist' = [hist EXCEPT ![p].debit_read = account.balance]
                   /\ pc' = [pc EXCEPT ![p] = "update_upsert"]
                   /\ UNCHANGED outcome
    /\ UNCHANGED <<accounts, accounts0, beneficiaries, journal, now, req, call, cosmos, inventory>>

\* The debit made a no-op for a request that repeats one whose debit was
\* already written: the account is left as it is.
UpdateUpsertOncePerRequest(p) ==
    /\ pc[p] = "update_upsert"
    /\ hist' = [hist EXCEPT ![p].upserts = @ + 1]
    /\ \E ok \in BOOLEAN :
         IF ~ok THEN /\ Raise(p, "CosmosHttpResponseError", "update_account_balance")
                     /\ UNCHANGED accounts
         ELSE /\ accounts' =
                   IF \E q \in Workers \ {p} :
                         pc[q] = "done" /\ req[q] = req[p] /\ hist[q].upserts > 0
                   THEN accounts
                   ELSE [accounts EXCEPT
                           ![loc[p].upd_account.id] = loc[p].upd_account.balance]
              /\ pc' = [pc EXCEPT ![p] = "build_transaction"]
              /\ UNCHANGED <<outcome, loc>>
    /\ UNCHANGED <<accounts0, beneficiaries, journal, now, req, call, cosmos, inventory>>

\* update_account_balance, second half: container.upsert_item(account) replaces
\* the stored document unconditionally.
UpdateUpsert(p) ==
    /\ pc[p] = "update_upsert"
    /\ hist' = [hist EXCEPT ![p].upserts = @ + 1]
    /\ \E ok \in BOOLEAN :
         IF ~ok THEN /\ Raise(p, "CosmosHttpResponseError", "update_account_balance")
                     /\ UNCHANGED accounts
         ELSE /\ accounts' = [accounts EXCEPT
                                ![loc[p].upd_account.id] = loc[p].upd_account.balance]
              /\ pc' = [pc EXCEPT ![p] = "build_transaction"]
              /\ UNCHANGED <<outcome, loc>>
    /\ UNCHANGED <<accounts0, beneficiaries, journal, now, req, call, cosmos, inventory>>

\* process_payment step 6, the transaction_data dict: the id and the timestamp
\* come from the clock, the recipient from the beneficiary's "name" and
\* "bankReference" keys (a KeyError when the document has no such key).  The
\* description is a list of the string's parts.
BuildTransaction(p) ==
    /\ pc[p] = "build_transaction"
    /\ LET beneficiary == loc[p].beneficiary IN
       IF ~({"name", "bankReference"} \subseteq DOMAIN beneficiary)
       THEN Raise(p, "KeyError", "process_payment")
       ELSE /\ loc' = [loc EXCEPT ![p].transaction_data =
                         [id |-> now,
                          description |-> IF req[p].description # ""
                                          THEN <<req[p].description>>
                                          ELSE <<"Payment to ", beneficiary.name>>,
                          type |-> "debit",
                          recipientName |-> beneficiary.name,
                          recipientBankReference |-> beneficiary.bankReference,
                          accountId |-> req[p].accountId,
                          paymentType |-> loc[p].payment_method.type,
                          amount |-> req[p].amount,
                          timestamp |-> now]]
            /\ pc' = [pc EXCEPT ![p] = "post_transaction"]
            /\ UNCHANGED outcome
    /\ UNCHANGED <<accounts, accounts0, beneficiaries, journal, now, req, hist, call, cosmos, inventory>>

\* What a POST to the Transaction API can come to: stored and answered 201
\* with the entry; refused or unreachable (nothing stored); stored, but the
\* answer is lost; stored and answered with success but without a JSON body
\* (the container service answers 204 No Content).
PostResults == {"created", "failed", "lost", "no_json"}

\* A failed post answered by a compensating credit: the account is written a
\* second time with the amount put back.
PostTransactionWithRollback(p) ==
    /\ pc[p] = "post_transaction"
    /\ now' = now + 1
    /\ \E result \in PostResults :
         /\ journal' = IF result = "failed" THEN journal
                       ELSE create_transaction(req[p].accountId, loc[p].transaction_data)
         /\ IF result = "created"
            THEN /\ pc' = [pc EXCEPT ![p] = "done"]
                 /\ outcome' = [outcome EXCEPT ![p] =
                                  [status |-> 200, error |-> "", raised_in |-> "",
                                   newBalance |-> loc[p].new_balance,
                                   transaction |->
                                     [loc[p].transaction_data EXCEPT
                                        !.accountId = req[p].accountId]]]
                 /\ loc' = [loc EXCEPT ![p] = NoLocals]
                 /\ hist' = [hist EXCEPT ![p].posts = @ + 1]
                 /\ UNCHANGED accounts
            ELSE /\ accounts' = [accounts EXCEPT ![req[p].accountId] =
                         NumBalance(accounts[req[p].accountId].value + req[p].amount)]
                 /\ hist' = [hist EXCEPT ![p].posts = @ + 1, ![p].upserts = @ + 1]
                 /\ Raise(p, "RequestException", "create_transaction_via_api")
    /\ UNCHANGED <<accounts0, beneficiaries, req, call, cosmos, inventory>>

\* create_transaction_via_api, then the success response of process_payment.
PostTransaction(p) ==
    /\ pc[p] = "post_transaction"
    /\ now' = now + 1
    /\ hist' = [hist EXCEPT ![p].posts = @ + 1]
    /\ \E result \in PostResults :
         /\ journal' = IF result = "failed" THEN journal
                       ELSE create_transaction(req[p].accountId, loc[p].transaction_data)
         /\ IF result = "created"
            THEN /\ pc' = [pc EXCEPT ![p] = "done"]
                 /\ outcome' = [outcome EXCEPT ![p] =
                                  [status |-> 200, error |-> "", raised_in |-> "",
                                   newBalance |-> loc[p].new_balance,
                                   transaction |->
                                     [loc[p].transaction_data EXCEPT
                                        !.accountId = req[p].accountId]]]
                 /\ loc' = [loc EXCEPT ![p] = NoLocals]
            ELSE IF result = "no_json"
            THEN Raise(p, "JSONDecodeError", "create_transaction_via_api")
            ELSE Raise(p, "RequestException", "create_transaction_via_api")
    /\ UNCHANGED <<accounts, accounts0, beneficiaries, req, call, cosmos, inventory>>

\* One step of the request worker p.
Step(p) ==
    \/ Receive(p)
    \/ GetAccount(p)
    \/ GetPaymentMethod(p)
    \/ GetBeneficiary(p)
    \/ UpdateRead(p)
    \/ UpdateUpsert(p)
    \/ BuildTransaction(p)
    \/ PostTransaction(p)

\* Requests are served concurrently: any worker may take the next step.
Next == \E p \in Workers : Step(p)

Spec == Init /\ [][Next]_vars

\* Requests served one at a time.
InFlight(p) == pc[p] \notin {"idle", "done"}

\* A request is received only when no other is in flight.
ReceiveAlone(p) ==
    /\ \A q \in Workers \ {p} : ~InFlight(q)
    /\ Receive(p)

NextSeq ==
    \E p \in Workers :
        \/ ReceiveAlone(p)
        \/ GetAccount(p)
        \/ GetPaymentMethod(p)
        \/ GetBeneficiary(p)
        \/ UpdateRead(p)
        \/ UpdateUpsert(p)
        \/ BuildTransaction(p)
        \/ PostTransaction(p)

SpecSeq == Init /\ [][NextSeq]_vars

\* ------------------------------------------------- unanswered journal post
\* create_transaction_via_api calls requests.post without a timeout: when the
\* Transaction API accepts the connection and never answers, the call does
\* not return and the worker stays in it.  The entry may or may not have been
\* stored.
PostTransactionUnanswered(p) ==
    /\ pc[p] = "post_transaction"
    /\ now' = now + 1
    /\ hist' = [hist EXCEPT ![p].posts = @ + 1]
    /\ \E stored \in BOOLEAN :
         journal' = IF stored
                    THEN create_transaction(req[p].accountId, loc[p].transaction_data)
                    ELSE journal
    /\ pc' = [pc EXCEPT ![p] = "post_unanswered"]
    /\ UNCHANGED <<accounts, accounts0, beneficiaries, req, loc, outcome, call, cosmos, inventory>>

\* The settlement endpoint with a Transaction API that may stay silent.
NextLive ==
    \E p \in Workers :
        \/ Step(p)
        \/ PostTransactionUnanswered(p)

\* A worker that can take a step eventually takes one: the host runs every
\* request it has accepted.
SpecLive ==
    /\ Init
    /\ [][NextLive]_vars
    /\ \A p \in Workers : WF_vars(Step(p) \/ PostTransactionUnanswered(p))

\* ------------------------------------------------------------ two accounts
\* The settlement endpoint on a store that holds both seeded accounts, their
\* balances adding up to MaxBalance.
InitTwo ==
    /\ InitStore(AccountIds)
    /\ accounts["1010"].value + accounts["1020"].value = MaxBalance

\* The account the requests of worker p name: the workers are spread over the
\* two accounts.
AccountOf(p) == IF p % 2 = 1 THEN "1010" ELSE "1020"

\* Worker p receives a request on its account.
ReceiveOwn(p) ==
    /\ Receive(p)
    /\ req'[p].accountId = AccountOf(p)

NextTwo ==
    \E p \in Workers :
        \/ ReceiveOwn(p)
        \/ GetAccount(p)
        \/ GetPaymentMethod(p)
        \/ GetBeneficiary(p)
        \/ UpdateRead(p)
        \/ UpdateUpsert(p)
        \/ BuildTransaction(p)
        \/ PostTransaction(p)

SpecTwo == InitTwo /\ [][NextTwo]_vars

\* ------------------------------------------------------------ cancellation
\* A cancellation that is honoured wherever the worker is: the request ends at
\* once and the caller is told it was cancelled.
CancelHonoured(p) ==
    /\ InFlight(p)
    /\ \A q \in Workers : hist[q].cancelled_at = ""
    /\ hist' = [hist EXCEPT ![p].cancelled_at = pc[p]]
    /\ pc' = [pc EXCEPT ![p] = "done"]
    /\ outcome' = [outcome EXCEPT ![p] =
                     [status |-> 499, error |-> "Cancelled", raised_in |-> "",
                      newBalance |-> None, transaction |-> None]]
    /\ loc' = [loc EXCEPT ![p] = NoLocals]
    /\ UNCHANGED <<accounts, accounts0, beneficiaries, journal, now, req, call, cosmos, inventory>>

\* The caller of an in-flight request gives it up (closes the connection).
\* process_payment is a synchronous function that reads no cancellation
\* signal: the worker is not told and goes on.  One caller at most gives up.
Cancel(p) ==
    /\ InFlight(p)
    /\ \A q \in Workers : hist[q].cancelled_at = ""
    /\ hist' = [hist EXCEPT ![p].cancelled_at = pc[p]]
    /\ UNCHANGED <<accounts, accounts0, beneficiaries, journal, now, pc, req, loc,
                   outcome, call, cosmos, inventory>>

\* The store in the layout process_payment reads, the account at MaxBalance.
InitCancel ==
    /\ Init
    /\ beneficiaries = NamedBeneficiaries
    /\ accounts["1010"] = NumBalance(MaxBalance)

\* Requests served one at a time, each of which its caller may give up.
NextCancel ==
    \E p \in Workers :
        \/ ReceiveAlone(p)
        \/ GetAccount(p)
        \/ GetPaymentMethod(p)
        \/ GetBeneficiary(p)
        \/ UpdateRead(p)
        \/ UpdateUpsert(p)
        \/ BuildTransaction(p)
        \/ PostTransaction(p)
        \/ Cancel(p)

SpecCancel == InitCancel /\ [][NextCancel]_vars

\* ----------------------------------------------------------- Transaction API
\* The Transaction API serves the transactions container in two variants: the
\* Function App (src/functions_apis/transaction_api/function_app.py) and the
\* container service (src/aca_apis/transaction-api).  The container payment
\* service (src/aca_apis/payment-api) posts to it.  Each request is served in
\* one step; `call` keeps the last request and its response.

\* Appends that reach the store (each one advances the clock).
MaxAppends == 2
\* Largest explicit ?limit= of GET /transactions/{account_id}.
MaxLimit == 2

\* int(req.params.get('limit', 10)) of the Function App.
DefaultLimit == 10
\* TransactionService.last_transactions_limit of the container service.
last_transactions_limit == 10

\* The variables of the payment endpoint, which the Transaction API leaves alone.
paymentVars == <<accounts, accounts0, beneficiaries, pc, req, loc, outcome, hist>>

\* The characters of the strings the services inspect.
Characters(s) ==
    CASE s = "" ->
           <<>>
      [] s = "1010" ->
           <<"1", "0", "1", "0">>
      [] s = "1020" ->
           <<"1", "0", "2", "0">>
      [] s = "9999" ->
           <<"9", "9", "9", "9">>
      [] s = "abc" ->
           <<"a", "b", "c">>
      [] s = "345678" ->
           <<"3", "4", "5", "6", "7", "8">>
      [] s = "34x" ->
           <<"3", "4", "x">>
      [] s = "acme" ->
           <<"a", "c", "m", "e">>
      [] s = "ACME" ->
           <<"A", "C", "M", "E">>
      [] s = "cme" ->
           <<"c", "m", "e">>
      [] s = "transfer" ->
           <<"t", "r", "a", "n", "s", "f", "e", "r">>
      [] s = "Transfer" ->
           <<"T", "r", "a", "n", "s", "f", "e", "r">>
      [] s = "BankTransfer" ->
           <<"B", "a", "n", "k", "T", "r", "a", "n", "s", "f", "e", "r">>
      [] s = "Contoso Corp" ->
           <<"C", "o", "n", "t", "o", "s", "o", " ", "C", "o", "r", "p">>
      [] s = "SuperMart" ->
           <<"S", "u", "p", "e", "r", "M", "a", "r", "t">>
      [] s = "PowerCo Utilities" ->
           <<"P", "o", "w", "e", "r", "C", "o", " ", "U", "t", "i", "l", "i", "t", "i", "e", "s">>
      [] s = "Tech Solutions Inc" ->
           <<"T", "e", "c", "h", " ", "S", "o", "l", "u", "t", "i", "o", "n", "s", " ", "I", "n", "c">>
      [] s = "Property Management LLC" ->
           <<"P", "r", "o", "p", "e", "r", "t", "y", " ", "M", "a", "n", "a", "g", "e", "m", "e", "n", "t", " ", "L", "L", "C">>
      [] s = "Acme Corporation" ->
           <<"A", "c", "m", "e", " ", "C", "o", "r", "p", "o", "r", "a", "t", "i", "o", "n">>
      [] s = "Amazon" ->
           <<"A", "m", "a", "z", "o", "n">>
      [] s = "ACME Corp" ->
           <<"A", "C", "M", "E", " ", "C", "o", "r", "p">>

Uppercase ==
    <<"A", "B", "C", "D", "E", "F", "G", "H", "I", "J", "K", "L", "M", "N", "O", "P", "Q", "R", "S", "T", "U", "V", "W", "X", "Y", "Z">>
Lowercase ==
    <<"a", "b", "c", "d", "e", "f", "g", "h", "i", "j", "k", "l", "m", "n", "o", "p", "q", "r", "s", "t", "u", "v", "w", "x", "y", "z">>

\* str.isdigit(): not empty and digits only.
isdigit(s) ==
    LET cs == Characters(s)
    IN  /\ cs # <<>>
        /\ \A i \in 1..Len(cs) :
             cs[i] \in {"0", "1", "2", "3", "4", "5", "6", "7", "8", "9"}

\* LOWER() of the query language and str.lower(): letter by letter.
LOWER(cs) ==
    [i \in 1..Len(cs) |->
        IF \E k \in 1..Len(Uppercase) : Uppercase[k] = cs[i]
        THEN Lowercase[CHOOSE k \in 1..Len(Uppercase) : Uppercase[k] = cs[i]]
        ELSE cs[i]]

\* CONTAINS(a, b) of the query language: b occurs in a.
CONTAINS(a, b) ==
    \E i \in 0..(Len(a) - Len(b)) :
        \A k \in 1..Len(b) : a[i + k] = b[k]

\* The transactions container as the seed script writes it, reduced to the
\* fields the Transaction API reads.  A timestamp is the rank of the entry's
\* ISO-8601 string among all timestamps (their string order is their time
\* order); the seeded ones lie in the past of the clock, which starts at 0.
SeedTransactions ==
    { [id |-> "11", accountId |-> "1010", recipientName |-> "acme",
       timestamp |-> -7],
      [id |-> "12", accountId |-> "1010", recipientName |-> "Contoso Corp",
       timestamp |-> -12],
      [id |-> "13", accountId |-> "1010", recipientName |-> "SuperMart",
       timestamp |-> -9],
      [id |-> "14", accountId |-> "1010", recipientName |-> "PowerCo Utilities",
       timestamp |-> -13],
      [id |-> "15", accountId |-> "1010", recipientName |-> "Tech Solutions Inc",
       timestamp |-> -14],
      [id |-> "20", accountId |-> "1000", recipientName |-> "Property Management LLC",
       timestamp |-> -10],
      [id |-> "21", accountId |-> "1000", recipientName |-> "Acme Corporation",
       timestamp |-> -11],
      [id |-> "30", accountId |-> "1020", recipientName |-> "Amazon",
       timestamp |-> -8] }

\* Entries appended to account 1010 since the seeding, which bring it over the
\* default limit of the queries.
EarlierAppends ==
    { [id |-> e[1], accountId |-> "1010", recipientName |-> "ACME Corp",
       timestamp |-> e[2]] :
         e \in { <<"101", -6>>, <<"102", -5>>, <<"103", -4>>,
                 <<"104", -3>>, <<"105", -2>>, <<"106", -1>> } }

\* Bodies of POST /transactions/{account_id}: without a timestamp; with the
\* same id, other content and the accountId of another account; with another id.
AppendBodies ==
    { [id |-> "t1", accountId |-> "1010", recipientName |-> "ACME Corp"],
      [id |-> "t1", accountId |-> "1020", recipientName |-> "Amazon",
       timestamp |-> 0],
      [id |-> "t2", accountId |-> "1010", recipientName |-> "acme",
       timestamp |-> 0] }

\* A body that is not JSON.
InvalidJson == [invalid_json |-> TRUE]

\* Transaction objects handed to TransactionService.notify_transaction (the
\* request body already parsed by the framework).
Transactions == {b \in AppendBodies : "timestamp" \in DOMAIN b}

\* Account ids of the request path: with entries, without, not numeric.
RouteAccountIds == {"1010", "1020", UnknownAccountId, "abc"}
\* Account ids handed to the TransactionService: those, and the empty string.
ServiceAccountIds == RouteAccountIds \cup {""}
\* Append requests of the Function App: every body on account 1010, one on
\* the path of a non-numeric account id.
AppendRequests ==
    {<<"1010", b>> : b \in AppendBodies \cup {InvalidJson}}
        \cup {<<"abc", [id |-> "t2", accountId |-> "1010", recipientName |-> "acme",
                       timestamp |-> 0]>>}

\* The ?limit= parameter: absent, digits, or other text.
NoLimit == [kind |-> "absent", value |-> 0]
LimitParams ==
    {NoLimit} \cup {[kind |-> "digits", value |-> n] : n \in 0..MaxLimit}
              \cup {[kind |-> "text", value |-> 0]}

\* The ?recipientName= parameter.
SearchTerms == {"", "cme", "ACME"}

\* ORDER BY c.timestamp DESC; documents of equal timestamp come in the store's
\* own order, which is fixed for a given content.
RECURSIVE ORDER_BY_timestamp_DESC(_)
ORDER_BY_timestamp_DESC(items) ==
    IF items = {} THEN <<>>
    ELSE LET first == CHOOSE t \in items :
                         \A u \in items : t.timestamp >= u.timestamp
         IN  <<first>> \o ORDER_BY_timestamp_DESC(items \ {first})

\* A cursor left behind by the previous identical query: the next one resumes
\* after the rows already returned.
get_transactions_by_account_id_resumed(account_id, limit) ==
    LET rows   == ORDER_BY_timestamp_DESC(JournalOf(account_id))
        offset == IF call.op = "LastN" /\ call.account_id = account_id
                     /\ call.status = 200
                  THEN Len(call.body) ELSE 0
        last   == IF offset + limit < Len(rows) THEN offset + limit ELSE Len(rows)
    IN  SubSeq(rows, offset + 1, last)

\* Function App, get_transactions_by_account_id: the partition of account_id,
\* ORDER BY c.timestamp DESC OFFSET 0 LIMIT @limit.
get_transactions_by_account_id(account_id, limit) ==
    LET rows == ORDER_BY_timestamp_DESC(JournalOf(account_id))
    IN  SubSeq(rows, 1, IF limit < Len(rows) THEN limit ELSE Len(rows))

\* The search comparing the names as they are stored.
search_transactions_by_recipient_case_sensitive(account_id, recipient_name) ==
    ORDER_BY_timestamp_DESC(
        {t \in JournalOf(account_id) :
            CONTAINS(Characters(t.recipientName), Characters(recipient_name))})

\* Function App, search_transactions_by_recipient:
\* CONTAINS(LOWER(c.recipientName), LOWER(@recipientName)) in the partition.
search_transactions_by_recipient(account_id, recipient_name) ==
    ORDER_BY_timestamp_DESC(
        {t \in JournalOf(account_id) :
            CONTAINS(LOWER(Characters(t.recipientName)),
                     LOWER(Characters(recipient_name)))})

\* Container service, TransactionRepository.get_by_account_id: the whole
\* partition in descending order, cut to `limit`.
TransactionRepository_get_by_account_id(account_id, limit) ==
    LET transactions == ORDER_BY_timestamp_DESC(JournalOf(account_id))
    IN  IF Len(transactions) > limit
        THEN SubSeq(transactions, 1, limit)
        ELSE transactions

\* Container service, TransactionRepository.search_by_recipient_name.
TransactionRepository_search_by_recipient_name(account_id, recipient_name) ==
    ORDER_BY_timestamp_DESC(
        {t \in JournalOf(account_id) :
            CONTAINS(LOWER(Characters(t.recipientName)),
                     LOWER(Characters(recipient_name)))})

\* Container service, TransactionRepository.create: create_item refuses a
\* document whose id is taken in its partition.
TransactionRepository_create(transaction) ==
    IF \E t \in journal :
          t.accountId = transaction.accountId /\ t.id = transaction.id
    THEN [raised |-> "CosmosResourceExistsError", items |-> journal]
    ELSE [raised |-> "", items |-> journal \cup {transaction}]

\* TransactionService and PaymentService, the accountId checks.
AccountIdError(account_id) ==
    IF Characters(account_id) = <<>> THEN "AccountId is empty or null"
    ELSE IF ~isdigit(account_id) THEN "AccountId is not a valid number"
    ELSE ""

\* Responses that report success.
IsSuccess(status) == status \in {200, 201, 204}

\* The record of a served request.
Served(variant, op, account_id, limit, term, request, status, raised, body, store_calls) ==
    [variant |-> variant, op |-> op, account_id |-> account_id, limit |-> limit,
     term |-> term, request |-> request, status |-> status, raised |-> raised,
     body |-> body,
     store_calls |-> store_calls,
     again |-> /\ IsSuccess(call.status)
               /\ call.variant = variant /\ call.op = op
               /\ call.account_id = account_id /\ call.limit = limit
               /\ call.term = term /\ call.request = request]

\* Function App, GET /transactions/{account_id}: the limit is parsed, the
\* store queried; every exception is answered 500.
get_last_transactions ==
    /\ \E account_id \in RouteAccountIds : \E limit \in LimitParams :
         IF limit.kind = "text"
         THEN call' = Served("functions", "LastN", account_id, limit, "", None,
                             500, "ValueError", <<>>, 0)
         ELSE \E ok \in BOOLEAN :
           call' =
           IF ~ok
           THEN Served("functions", "LastN", account_id, limit, "", None,
                       500, "CosmosHttpResponseError", <<>>, 1)
           ELSE Served("functions", "LastN", account_id, limit, "", None, 200, "",
                       get_transactions_by_account_id(account_id,
                           IF limit.kind = "absent" THEN DefaultLimit
                           ELSE limit.value),
                       1)
    /\ UNCHANGED <<journal, now, paymentVars, cosmos, inventory>>

\* Function App, GET /transactions/{account_id}/search: an empty recipientName
\* is answered 400 before the store is queried.
get_transactions_by_recipient_name ==
    /\ \E account_id \in RouteAccountIds : \E recipient_name \in SearchTerms :
         IF recipient_name = ""
         THEN call' = Served("functions", "Search", account_id, NoLimit,
                             recipient_name, None, 400, "", <<>>, 0)
         ELSE \E ok \in BOOLEAN :
           call' =
           IF ~ok
           THEN Served("functions", "Search", account_id, NoLimit,
                       recipient_name, None, 500, "CosmosHttpResponseError", <<>>, 1)
           ELSE Served("functions", "Search", account_id, NoLimit,
                       recipient_name, None, 200, "",
                       search_transactions_by_recipient(account_id, recipient_name),
                       1)
    /\ UNCHANGED <<journal, now, paymentVars, cosmos, inventory>>

\* Function App, POST /transactions/{account_id}: a body that is not JSON is
\* answered 400; create_transaction upserts the body and the stored document
\* is answered with 201; every other exception is answered 500.
notify_transaction ==
    /\ \E request \in AppendRequests :
         LET account_id == request[1]
             transaction_data == request[2]
         IN
         IF transaction_data = InvalidJson
         THEN /\ call' = Served("functions", "Append", account_id, NoLimit, "",
                                transaction_data, 400, "ValueError", <<>>, 0)
              /\ UNCHANGED <<journal, now>>
         ELSE \E ok \in BOOLEAN :
         IF ~ok
         THEN /\ call' = Served("functions", "Append", account_id, NoLimit, "",
                                transaction_data, 500, "CosmosHttpResponseError", <<>>, 1)
              /\ UNCHANGED <<journal, now>>
         ELSE /\ now < MaxAppends
              /\ journal' = create_transaction(account_id, transaction_data)
              /\ call' = Served("functions", "Append", account_id, NoLimit, "",
                                transaction_data, 201, "",
                                <<created_item(account_id, transaction_data)>>, 1)
              /\ now' = now + 1
    /\ UNCHANGED <<paymentVars, cosmos, inventory>>

\* Container service, GET /transactions/{account_id}: TransactionService
\* validates the account id (ValueError, answered 400), then the repository
\* reads the last last_transactions_limit entries.
TransactionService_get_last_transactions ==
    /\ \E account_id \in ServiceAccountIds :
         IF AccountIdError(account_id) # ""
         THEN call' = Served("aca", "LastN", account_id, NoLimit, "", None,
                             400, "ValueError", <<>>, 0)
         ELSE \E ok \in BOOLEAN :
           call' =
           IF ~ok
           THEN Served("aca", "LastN", account_id, NoLimit, "", None,
                       500, "CosmosHttpResponseError", <<>>, 1)
           ELSE Served("aca", "LastN", account_id, NoLimit, "", None, 200, "",
                       TransactionRepository_get_by_account_id(
                           account_id, last_transactions_limit),
                       1)
    /\ UNCHANGED <<journal, now, paymentVars, cosmos, inventory>>

\* Container service, GET /transactions/{account_id}/search: the account id
\* and the recipient name are validated before the repository is called.
TransactionService_get_transactions_by_recipient_name ==
    /\ \E account_id \in ServiceAccountIds : \E recipient_name \in SearchTerms :
         IF AccountIdError(account_id) # "" \/ recipient_name = ""
         THEN call' = Served("aca", "Search", account_id, NoLimit, recipient_name,
                             None, 400, "ValueError", <<>>, 0)
         ELSE \E ok \in BOOLEAN :
           call' =
           IF ~ok
           THEN Served("aca", "Search", account_id, NoLimit, recipient_name,
                       None, 500, "CosmosHttpResponseError", <<>>, 1)
           ELSE Served("aca", "Search", account_id, NoLimit, recipient_name,
                       None, 200, "",
                       TransactionRepository_search_by_recipient_name(
                           account_id, recipient_name),
                       1)
    /\ UNCHANGED <<journal, now, paymentVars, cosmos, inventory>>

\* Container service, POST /transactions/{account_id}: the account id is
\* validated, the transaction takes the account id of the path, the entries of
\* the account are counted (a failure of the count is only logged) and the
\* transaction is created; the endpoint answers 204 without a body, 400 for a
\* ValueError and 500 for every other exception.
TransactionService_notify_transaction ==
    /\ \E account_id \in {"1010", "abc", ""} :
       \E transaction \in Transactions :
         LET stored  == [transaction EXCEPT !.accountId = account_id]
             created == TransactionRepository_create(stored)
         IN
         IF AccountIdError(account_id) # ""
         THEN /\ call' = Served("aca", "Append", account_id, NoLimit, "",
                                transaction, 400, "ValueError", <<>>, 0)
              /\ UNCHANGED <<journal, now>>
         ELSE \E ok \in BOOLEAN :
         IF ~ok \/ created.raised # ""
         THEN /\ call' = Served("aca", "Append", account_id, NoLimit, "",
                                transaction, 500,
                                IF ~ok THEN "CosmosHttpResponseError"
                                ELSE created.raised,
                                <<>>, 2)
              /\ UNCHANGED <<journal, now>>
         ELSE /\ now < MaxAppends
              /\ journal' = created.items
              /\ call' = Served("aca", "Append", account_id, NoLimit, "",
                                transaction, 204, "", <<>>, 2)
              /\ now' = now + 1
    /\ UNCHANGED <<paymentVars, cosmos, inventory>>

\* Bodies of POST /payments of the container payment service.
Payments ==
    [ accountId       : {"1010", "abc", ""},
      paymentMethodId : {"345678", "34x", ""},
      paymentType     : {"Transfer", "BankTransfer"},
      amount          : {0, 1},
      recipientName   : {"Amazon"},
      timestamp       : {0} ]

\* uuid.uuid4(): an id no stored transaction has.
Uuids == {"uuid-1", "uuid-2", "uuid-3", "uuid-4", "uuid-5"}
uuid4 == CHOOSE u \in Uuids : \A t \in journal : t.id # u

\* PaymentService.process_payment, the validations: the first that fails.
PaymentError(payment) ==
    IF AccountIdError(payment.accountId) # ""
    THEN AccountIdError(payment.accountId)
    ELSE IF /\ LOWER(Characters(payment.paymentType)) # Characters("transfer")
            /\ Characters(payment.paymentMethodId) = <<>>
    THEN "paymentMethodId is empty or null"
    ELSE IF /\ Characters(payment.paymentMethodId) # <<>>
            /\ ~isdigit(payment.paymentMethodId)
    THEN "paymentMethodId is not a valid number"
    ELSE ""

\* PaymentService._convert_payment_to_transaction.
convert_payment_to_transaction(payment) ==
    [id |-> uuid4, recipientName |-> payment.recipientName,
     accountId |-> payment.accountId, timestamp |-> payment.timestamp]

\* The notification's failure passed on to the caller: a post that fails makes
\* the payment fail.
PaymentService_process_payment_strict ==
    /\ \E payment \in Payments :
         IF PaymentError(payment) # ""
         THEN /\ call' = Served("aca-payment", "Payment", payment.accountId,
                                NoLimit, "", payment, 400, "ValueError", <<>>, 0)
              /\ UNCHANGED <<journal, now>>
         ELSE \E configured \in BOOLEAN : \E result \in PostResults :
         IF ~configured
         THEN /\ call' = Served("aca-payment-no-url", "Payment", payment.accountId,
                                NoLimit, "", payment, 200, "", <<>>, 0)
              /\ UNCHANGED <<journal, now>>
         ELSE IF result = "failed"
         THEN /\ call' = Served("aca-payment", "Payment", payment.accountId,
                                NoLimit, "", payment, 500, "RequestException", <<>>, 1)
              /\ UNCHANGED <<journal, now>>
         ELSE /\ now < MaxAppends
              /\ journal' = create_transaction(payment.accountId,
                                convert_payment_to_transaction(payment))
              /\ call' = Served("aca-payment", "Payment", payment.accountId,
                                NoLimit, "", payment, 200, "", <<>>, 1)
              /\ now' = now + 1
    /\ UNCHANGED <<paymentVars, cosmos, inventory>>

\* Container payment service, POST /payments: a payment that fails a
\* validation is answered 400; any other is answered 200 after the
\* transaction has been posted to the Transaction API when its URL is
\* configured (variant "aca-payment"; "aca-payment-no-url" is the service
\* constructed without one), whatever comes of the post.
PaymentService_process_payment ==
    /\ \E payment \in Payments :
         IF PaymentError(payment) # ""
         THEN /\ call' = Served("aca-payment", "Payment", payment.accountId,
                                NoLimit, "", payment, 400, "ValueError", <<>>, 0)
              /\ UNCHANGED <<journal, now>>
         ELSE \E configured \in BOOLEAN : \E result \in PostResults :
         IF ~configured
         THEN /\ call' = Served("aca-payment-no-url", "Payment", payment.accountId,
                                NoLimit, "", payment, 200, "", <<>>, 0)
              /\ UNCHANGED <<journal, now>>
         ELSE IF result = "failed"
         THEN /\ call' = Served("aca-payment", "Payment", payment.accountId,
                                NoLimit, "", payment, 200, "", <<>>, 1)
              /\ UNCHANGED <<journal, now>>
         ELSE /\ now < MaxAppends
              /\ journal' = create_transaction(payment.accountId,
                                convert_payment_to_transaction(payment))
              /\ call' = Served("aca-payment", "Payment", payment.accountId,
                                NoLimit, "", payment, 200, "", <<>>, 1)
              /\ now' = now + 1
    /\ UNCHANGED <<paymentVars, cosmos, inventory>>

\* The store of the Transaction API: the seeded container after further
\* appends to account 1010; no payment of the Function App endpoint is under
\* way.
InitJournal ==
    /\ accounts = [a \in {"1010"} |-> [repr |-> "str", value |-> MaxBalance]]
    /\ accounts0 = accounts
    /\ beneficiaries = SeedBeneficiaries
    /\ journal = SeedTransactions \cup EarlierAppends
    /\ now = 0
    /\ pc = [p \in Workers |-> "idle"]
    /\ req = [p \in Workers |-> None]
    /\ loc = [p \in Workers |-> NoLocals]
    /\ outcome = [p \in Workers |-> NoOutcome]
    /\ hist = [p \in Workers |-> NoHistory]
    /\ call = NoCall
    /\ cosmos = NoClient("transaction")
    /\ inventory = NoInventory

\* Requests to the Transaction API, of either variant.
NextJournal ==
    \/ get_last_transactions
    \/ get_transactions_by_recipient_name
    \/ notify_transaction
    \/ TransactionService_get_last_transactions
    \/ TransactionService_get_transactions_by_recipient_name
    \/ TransactionService_notify_transaction

SpecJournal == InitJournal /\ [][NextJournal]_vars

\* Requests to the container payment service.
NextPayments == PaymentService_process_payment

SpecPayments == InitJournal /\ [][NextPayments]_vars

\* ------------------------------------------------------------- vocabulary
Done(p) == pc[p] = "done"

\* The endpoint answered 200.
Succeeded(p) == Done(p) /\ outcome[p].status = 200

\* The store or the Transaction API failed under the request.
InfrastructureErrors ==
    {"CosmosHttpResponseError", "RequestException", "JSONDecodeError"}

\* The account, the payment method and the beneficiary of r exist, the last two
\* under r's account, and the amount is positive.
ValidRequest(r) ==
    /\ r.amount > 0
    /\ r.accountId \in DOMAIN accounts
    /\ get_payment_method_by_id(r.paymentMethodId, r.accountId) # None
    /\ get_beneficiary_by_id(r.beneficiaryId, r.accountId) # None

\* The post to the Transaction API failed (the debit was committed before it).
AppendFailed(p) == Done(p) /\ outcome[p].raised_in = "create_transaction_via_api"

\* ------------------------------------------------------------------ claims

\* C1: no lost update. When two settlements on the same account have both
\* finished with success (and no other request has written that account), the
\* stored balance is the initial balance minus the sum of both amounts.
C1_NoLostUpdate ==
    \A p \in Workers : \A q \in Workers \ {p} :
        ( /\ Succeeded(p) /\ Succeeded(q)
          /\ req[p].accountId = req[q].accountId
          /\ \A o \in Workers \ {p, q} : hist[o].upserts = 0 )
        => accounts[req[p].accountId].value =
             accounts0[req[p].accountId].value - req[p].amount - req[q].amount

\* C2: the stored balance of every account is never negative (the initial
\* balances are >= 0 and every accepted amount is > 0).
C2_BalanceNeverNegative ==
    \A a \in DOMAIN accounts : accounts[a].value >= 0

\* C2 witness: two settlements on one account both succeeded, their amounts
\* add up to more than the initial balance, and the stored balance is 0.
C2_Witness ==
    \E p \in Workers : \E q \in Workers \ {p} :
        /\ Succeeded(p) /\ Succeeded(q)
        /\ req[p].accountId = req[q].accountId
        /\ req[p].amount + req[q].amount > accounts0[req[p].accountId].value
        /\ accounts[req[p].accountId].value = 0

\* C3: a valid request with amount <= balance, served alone on the store as
\* it was initially and with the store and the Transaction API answering,
\* reports success, leaves the stored balance at the previous balance minus
\* the amount, adds exactly one journal entry to the account, and returns the
\* stored balance as newBalance.
C3_SettleDebitsAndJournals ==
    \A p \in Workers :
        ( /\ Done(p)
          /\ \A q \in Workers \ {p} : pc[q] = "idle"
          /\ ValidRequest(req[p])
          /\ req[p].amount <= accounts0[req[p].accountId].value
          /\ outcome[p].error \notin InfrastructureErrors )
        => /\ outcome[p].status = 200
           /\ accounts[req[p].accountId].value =
                accounts0[req[p].accountId].value - req[p].amount
           /\ Cardinality(JournalOf(req[p].accountId)) = 1
           /\ outcome[p].newBalance = accounts[req[p].accountId].value

\* C4: requests whose amount is greater than the balance, served one after the
\* other any number of times, are all answered InsufficientFunds, and the
\* stored balance and the journal stay as they were.
C4_InsufficientFundsIsNoOp ==
    ( \A p \in Workers :
         pc[p] # "idle" =>
            /\ ValidRequest(req[p])
            /\ req[p].amount > accounts0[req[p].accountId].value )
    => /\ accounts = accounts0
       /\ journal = {}
       /\ \A p \in Workers :
            (Done(p) /\ outcome[p].error \notin InfrastructureErrors)
            => /\ outcome[p].error = "Insufficient balance"
               /\ outcome[p].status = 400

\* Every worker has finished a valid request of amount a on account 1010, none
\* met a store or Transaction API failure, and the documents have the layout
\* process_payment reads (numeric balance, "name"/"bankReference" keys).
AllSettled(a) ==
    /\ accounts0["1010"].repr = "num"
    /\ beneficiaries = NamedBeneficiaries
    /\ \A p \in Workers :
         /\ Done(p)
         /\ ValidRequest(req[p])
         /\ req[p].accountId = "1010"
         /\ req[p].amount = a
         /\ outcome[p].error \notin InfrastructureErrors

\* C5: N settlements of amount a against a balance of N*a, in any interleaving,
\* all succeed and leave the balance at 0.
C5_AllSucceedAndDrain ==
    \A a \in 1..MaxAmount :
        (AllSettled(a) /\ accounts0["1010"].value = NWorkers * a)
        => /\ \A p \in Workers : Succeeded(p)
           /\ accounts["1010"].value = 0

\* C6: N settlements of amount a against a balance of (N-1)*a, in any
\* interleaving: exactly one fails with InsufficientFunds, the other N-1
\* succeed, and the balance ends at 0.
C6_ExactlyOneRejected ==
    \A a \in 1..MaxAmount :
        (AllSettled(a) /\ accounts0["1010"].value = (NWorkers - 1) * a)
        => /\ Cardinality({p \in Workers :
                             outcome[p].error = "Insufficient balance"}) = 1
           /\ Cardinality({p \in Workers : Succeeded(p)}) = NWorkers - 1
           /\ accounts["1010"].value = 0

\* The debit step of p failed: update_account_balance raised, or the balance it
\* found in the store no longer covers the amount.
DebitFailed(p) ==
    \/ Done(p) /\ outcome[p].raised_in = "update_account_balance"
    \/ /\ hist[p].debit_read # None
       /\ hist[p].debit_read.value < req[p].amount

\* C7: when the debit step fails, the settlement ends as an aborted settlement
\* (a 500), the post to the Transaction API is never issued, and the journal
\* holds no entry of it.
C7_FailedDebitAborts ==
    \A p \in Workers :
        DebitFailed(p)
        => /\ hist[p].posts = 0
           /\ Done(p) => outcome[p].status = 500

\* C8: when the post to the Transaction API fails after the debit, the
\* settlement has issued exactly its one account upsert (no compensating
\* write), and with no other writer the stored balance is the debited one.
C8_NoCompensatingWrite ==
    \A p \in Workers :
        AppendFailed(p)
        => /\ hist[p].upserts = 1
           /\ (\A q \in Workers \ {p} : hist[q].upserts = 0)
                => accounts[req[p].accountId].value =
                     accounts0[req[p].accountId].value - req[p].amount

\* C8 witness: a post failed after a debit of a positive amount.
C8_Witness ==
    \E p \in Workers :
        /\ AppendFailed(p)
        /\ hist[p].upserts = 1
        /\ accounts[req[p].accountId].value < accounts0[req[p].accountId].value

\* C9: when the post to the Transaction API fails after the debit, the caller
\* gets the success-with-warning outcome SettledUnconfirmed, never a 500.
C9_AppendFailureIsSettledUnconfirmed ==
    \A p \in Workers :
        AppendFailed(p)
        => /\ outcome[p].status = 200
           /\ outcome[p].error = "SettledUnconfirmed"

\* Outcomes InvalidRequest, AccountNotFound, InstrumentNotFound,
\* BeneficiaryNotFound and InsufficientFunds, as the code words them.
CleanFailures ==
    {"ValidationError", "Account not found", "Payment method not found",
     "Beneficiary not found", "Insufficient balance"}

\* C10: a settlement that ends with one of the clean failures has issued no
\* account upsert and no post; when every request so far ended that way, the
\* accounts and the journal are as they were initially.
C10_CleanFailuresWriteNothing ==
    /\ \A p \in Workers :
         (Done(p) /\ outcome[p].error \in CleanFailures)
         => hist[p].upserts = 0 /\ hist[p].posts = 0
    /\ (\A p \in Workers :
          pc[p] # "idle" => Done(p) /\ outcome[p].error \in CleanFailures)
       => accounts = accounts0 /\ journal = {}

\* C10 witness: one request was rejected for its balance and another for an
\* unknown beneficiary, the accounts and the journal being as they were.
C10_Witness ==
    \E p \in Workers : \E q \in Workers \ {p} :
        /\ Done(p) /\ outcome[p].error = "Insufficient balance"
        /\ Done(q) /\ outcome[q].error = "Beneficiary not found"
        /\ accounts = accounts0 /\ journal = {}

\* ------------------------------------------------- claims on the journal

\* C11: Append is idempotent. When an append repeats the one served just
\* before (same service, same account, same identifier and content), which
\* succeeded, and the store answers, it succeeds too, and the account's
\* journal holds exactly one entry of that identifier, which carries the
\* appended content.
C11_AppendIdempotent ==
    (call.op = "Append" /\ call.again /\ call.raised # "CosmosHttpResponseError")
    => /\ IsSuccess(call.status)
       /\ LET same == {t \in JournalOf(call.account_id) : t.id = call.request.id}
          IN  /\ Cardinality(same) = 1
              /\ \A t \in same :
                   \A k \in DOMAIN call.request \ {"accountId"} :
                       t[k] = call.request[k]

\* C12: one journal entry per successful settlement. When every settlement
\* received so far has ended, none of them on a failure of the store or of the
\* Transaction API, the journal of each account holds as many entries as
\* settlements on that account reported success (each success has its own
\* identifier, so none replaces another's entry).
C12_OneEntryPerSuccess ==
    (\A p \in Workers :
        ~InFlight(p) /\ outcome[p].error \notin InfrastructureErrors)
    => \A a \in DOMAIN accounts :
          Cardinality(JournalOf(a)) =
             Cardinality({p \in Workers : Succeeded(p) /\ req[p].accountId = a})

\* C13: the journal is append-only. No step of the Transaction API changes a
\* field of a stored entry or removes it: every entry of the journal is still
\* there, as it was, after the step.
C13_AppendOnly == [][\A t \in journal : t \in journal']_vars

\* C14: the journal entry of a successful settlement has direction debit, the
\* negated request amount, the account of the request, the name and the bank
\* reference of the resolved beneficiary and the type of the resolved payment
\* method.
C14_JournalEntryOfSettlement ==
    \A p \in Workers :
        Succeeded(p)
        => LET entry       == outcome[p].transaction
               beneficiary == get_beneficiary_by_id(req[p].beneficiaryId,
                                                    req[p].accountId)
               method      == get_payment_method_by_id(req[p].paymentMethodId,
                                                       req[p].accountId)
           IN  /\ entry \in journal
               /\ entry.type = "debit"
               /\ entry.amount = 0 - req[p].amount
               /\ entry.accountId = req[p].accountId
               /\ entry.recipientName = beneficiary.name
               /\ entry.recipientBankReference = beneficiary.bankReference
               /\ entry.paymentType = method.type

\* The positions of process_payment, in the order of its steps: account
\* lookup, payment method lookup, beneficiary lookup with the balance check,
\* debit (read, then write), journal entry (build, then post).
StepOrder ==
    <<"get_account", "get_payment_method", "get_beneficiary", "update_read",
      "update_upsert", "build_transaction", "post_transaction">>

\* The request of p names an existing account and a positive amount, and has
\* met no failure of the store or of the Transaction API.
Answered(p) ==
    /\ Done(p)
    /\ req[p].amount > 0
    /\ req[p].accountId \in DOMAIN accounts
    /\ outcome[p].error \notin InfrastructureErrors

\* The beneficiary of p's request is missing and its amount exceeds the balance.
MissingBeneficiaryAndFunds(p) ==
    /\ get_payment_method_by_id(req[p].paymentMethodId, req[p].accountId) # None
    /\ get_beneficiary_by_id(req[p].beneficiaryId, req[p].accountId) = None
    /\ req[p].amount > accounts0[req[p].accountId].value

\* C15: process_payment runs its steps in the strict order account lookup,
\* payment method lookup, beneficiary lookup, balance check, debit, journal
\* post, and ends at the first that fails: a request whose payment method and
\* beneficiary are both missing is answered "Payment method not found"; one
\* whose beneficiary is missing and whose amount exceeds the balance is
\* answered "Beneficiary not found"; and the post to the Transaction API is
\* issued only by a request whose one account upsert has been written.
C15_StepsInOrder ==
    /\ [](\A p \in Workers :
            Answered(p) =>
              /\ ( /\ get_payment_method_by_id(req[p].paymentMethodId,
                                               req[p].accountId) = None
                   /\ get_beneficiary_by_id(req[p].beneficiaryId,
                                            req[p].accountId) = None )
                 => outcome[p].error = "Payment method not found"
              /\ MissingBeneficiaryAndFunds(p)
                 => outcome[p].error = "Beneficiary not found")
    /\ [][\A p \in Workers :
            /\ (pc'[p] # pc[p] /\ pc[p] # "idle" /\ pc'[p] # "done")
               => \E i \in 1..(Len(StepOrder) - 1) :
                      pc[p] = StepOrder[i] /\ pc'[p] = StepOrder[i + 1]
            /\ (pc'[p] # pc[p] /\ pc[p] = "idle")
               => pc'[p] \in {"get_account", "done"}
            /\ (pc'[p] = "build_transaction" /\ pc[p] # "build_transaction")
               => accounts'[req[p].accountId] = NumBalance(loc[p].new_balance)
            /\ hist'[p].posts > hist[p].posts
               => /\ pc[p] = "post_transaction"
                  /\ hist[p].upserts = 1]_vars

\* C15 witness: one request was rejected for its missing beneficiary although
\* its amount exceeds the balance, and another, whose payment method and
\* beneficiary are both missing, for its payment method.
C15_Witness ==
    \E p \in Workers : \E q \in Workers \ {p} :
        /\ Answered(p) /\ MissingBeneficiaryAndFunds(p)
        /\ outcome[p].error = "Beneficiary not found"
        /\ Answered(q)
        /\ get_payment_method_by_id(req[q].paymentMethodId, req[q].accountId) = None
        /\ get_beneficiary_by_id(req[q].beneficiaryId, req[q].accountId) = None
        /\ outcome[q].error = "Payment method not found"

\* C16: request-shape validation of a payment. A request is rejected with 400
\* before anything is posted exactly when its accountId is empty or not
\* numeric, or its paymentMethodId is empty although the payment type is not a
\* pure transfer, or its paymentMethodId is present but not numeric, or its
\* amount is <= 0; every other request passes.
C16_RequestShapeValidation ==
    call.op = "Payment"
    => LET r == call.request
           ill_formed ==
               \/ ~isdigit(r.accountId)
               \/ /\ LOWER(Characters(r.paymentType)) # Characters("transfer")
                  /\ r.paymentMethodId = ""
               \/ r.paymentMethodId # "" /\ ~isdigit(r.paymentMethodId)
               \/ r.amount <= 0
       IN  IF ill_formed
           THEN call.status = 400 /\ call.store_calls = 0
           ELSE call.status = 200

\* C17: the last-transactions query. A served query for account a with limit n
\* (10 when none is given) returns entries of a only, each once, in descending
\* order of timestamp, exactly min(n, number of entries of a) of them, and no
\* entry left out is more recent than one returned; and a query repeating the
\* one served just before returns the same sequence.
C17_LastN ==
    /\ []((call.op = "LastN" /\ call.status = 200)
          => LET body  == call.body
                 mine  == JournalOf(call.account_id)
                 n     == IF call.limit.kind = "digits" THEN call.limit.value
                          ELSE 10
                 count == Cardinality(mine)
             IN  /\ \A i \in 1..Len(body) : body[i] \in mine
                 /\ \A i \in 1..Len(body) : \A j \in 1..Len(body) :
                      i < j => /\ body[i] # body[j]
                               /\ body[i].timestamp >= body[j].timestamp
                 /\ Len(body) = IF n < count THEN n ELSE count
                 /\ \A t \in mine :
                      (\A i \in 1..Len(body) : body[i] # t)
                      => \A i \in 1..Len(body) : t.timestamp <= body[i].timestamp)
    /\ [][(call'.op = "LastN" /\ call'.status = 200 /\ call'.again)
          => call'.body = call.body]_vars

\* C17 witness: a repeated query on an account with more than 10 entries, no
\* limit given, has returned 10 of them.
C17_Witness ==
    /\ call.op = "LastN" /\ call.status = 200 /\ call.again
    /\ call.limit.kind = "absent"
    /\ Cardinality(JournalOf(call.account_id)) > 10
    /\ Len(call.body) = 10

\* C18: the search by recipient. A served search of account a for the term s
\* returns exactly the entries of a whose recipient name has, somewhere, the
\* letters of s up to case, each once, in descending order of timestamp; no
\* entry of another account is returned.
C18_SearchByRecipient ==
    (call.op = "Search" /\ call.status = 200)
    => LET body == call.body
           s    == Characters(call.term)
           same_letter(x, y) ==
               \/ x = y
               \/ \E k \in 1..Len(Uppercase) :
                     {x, y} = {Uppercase[k], Lowercase[k]}
           matches(t) ==
               LET name == Characters(t.recipientName)
               IN  \E i \in 0..(Len(name) - Len(s)) :
                      \A k \in 1..Len(s) : same_letter(name[i + k], s[k])
       IN  /\ {body[i] : i \in 1..Len(body)}
                = {t \in journal : t.accountId = call.account_id /\ matches(t)}
           /\ \A i \in 1..Len(body) : \A j \in 1..Len(body) :
                i < j => /\ body[i] # body[j]
                         /\ body[i].timestamp >= body[j].timestamp

\* C18 witness: a search has returned an entry whose recipient name holds the
\* term only up to case, and left out entries of the account that do not hold it
\* and an entry of another account that does.
C18_Witness ==
    /\ call.op = "Search" /\ call.status = 200
    /\ \E i \in 1..Len(call.body) :
          ~CONTAINS(Characters(call.body[i].recipientName), Characters(call.term))
    /\ \E t \in JournalOf(call.account_id) :
          \A i \in 1..Len(call.body) : call.body[i] # t
    /\ \E t \in journal :
          /\ t.accountId # call.account_id
          /\ CONTAINS(LOWER(Characters(t.recipientName)), LOWER(Characters(call.term)))

\* C19: validation before the store. A journal operation (Append, LastN,
\* SearchByRecipient) called with an empty or non-numeric account id, or a
\* search called with an empty term, is answered with a validation error (400)
\* without any call to the store, and leaves the journal as it was.
C19_ValidatedBeforeStore ==
    /\ []((/\ call.op \in {"Append", "LastN", "Search"}
           /\ \/ ~isdigit(call.account_id)
              \/ call.op = "Search" /\ call.term = "")
          => (call.status = 400 /\ call.store_calls = 0))
    /\ [][(/\ call'.op \in {"Append", "LastN", "Search"}
           /\ \/ ~isdigit(call'.account_id)
              \/ call'.op = "Search" /\ call'.term = "")
          => journal' = journal]_vars

\* C20: the journal endpoints. A successful append has stored the entry under
\* the account id of the request path whatever accountId the body carries, with
\* the body's timestamp when it has one and with a timestamp filled in when it
\* has none, and is answered 201 with the stored entry; a query that reaches the
\* store and is served is answered 200, with an empty array when nothing matches.
C20_JournalEndpoints ==
    /\ (call.op = "Append" /\ IsSuccess(call.status))
       => /\ call.status = 201
          /\ \E t \in journal :
                /\ t.id = call.request.id
                /\ t.accountId = call.account_id
                /\ "timestamp" \in DOMAIN t
                /\ "timestamp" \in DOMAIN call.request
                   => t.timestamp = call.request.timestamp
                /\ call.body = <<t>>
    /\ (call.op \in {"LastN", "Search"} /\ call.store_calls > 0 /\ call.raised = "")
       => /\ call.status = 200
          /\ (\A t \in JournalOf(call.account_id) :
                /\ call.op = "Search"
                /\ ~CONTAINS(LOWER(Characters(t.recipientName)),
                             LOWER(Characters(call.term))))
             => call.body = <<>>

\* ---------------------------------------- claims on the settlement endpoint

\* C21: the status of a settlement's answer. A rejected request body and an
\* insufficient balance are answered 400; a failure raised by a store call, by
\* the debit or by the post to the Transaction API is answered 500, never 400;
\* and a missing account, payment method or beneficiary is answered with one
\* and the same client-error status.
C21_StatusMapping ==
    /\ \A p \in Workers :
         Done(p) =>
           /\ outcome[p].error \in {"ValidationError", "Insufficient balance"}
              => outcome[p].status = 400
           /\ outcome[p].raised_in \in
                 {"get_account_by_id", "get_payment_method_by_id",
                  "get_beneficiary_by_id", "update_account_balance",
                  "create_transaction_via_api"}
              => outcome[p].status = 500
    /\ \A p \in Workers : \A q \in Workers :
         ( /\ Done(p) /\ Done(q)
           /\ {outcome[p].error, outcome[q].error} \subseteq
                 {"Account not found", "Payment method not found",
                  "Beneficiary not found"} )
         => /\ outcome[p].status = outcome[q].status
            /\ outcome[p].status \in 400..499

\* C22: every settlement request that has been received eventually ends with
\* an answer to the caller, also when the Transaction API never answers the
\* post (the post being bounded by a timeout that counts as a failed post).
C22_EventuallyAnswered ==
    \A p \in Workers : (pc[p] # "idle") ~> Done(p)

\* C23: settlements on different accounts do not interfere. No step of a
\* settlement changes the record or the journal of an account other than the
\* one its request names; and when a settlement has ended while every other
\* request received so far names another account, the balance and the journal
\* of its account are what the settlement leaves when it runs alone: debited
\* with its one entry after a success, untouched after a rejection or a failed
\* lookup or debit, debited without entry when the entry could not be built,
\* debited with at most its entry when the post failed.
C23_AccountsIndependent ==
    /\ [](\A p \in Workers :
            ( /\ Done(p) /\ req[p].accountId \in DOMAIN accounts
              /\ \A q \in Workers \ {p} :
                    pc[q] = "idle" \/ req[q].accountId # req[p].accountId )
            => LET a       == req[p].accountId
                   debited == accounts[a] =
                                 NumBalance(accounts0[a].value - req[p].amount)
                   entries == JournalOf(a)
               IN  /\ outcome[p].status = 200
                      => debited /\ entries = {outcome[p].transaction}
                   /\ ( \/ outcome[p].error \in CleanFailures \cup {"TypeError"}
                        \/ outcome[p].raised_in \in
                              {"get_account_by_id", "get_payment_method_by_id",
                               "get_beneficiary_by_id", "update_account_balance"} )
                      => accounts[a] = accounts0[a] /\ entries = {}
                   /\ outcome[p].error = "KeyError"
                      => debited /\ entries = {}
                   /\ outcome[p].raised_in = "create_transaction_via_api"
                      => /\ debited
                         /\ Cardinality(entries) <= 1
                         /\ \A t \in entries : t.amount = req[p].amount)
    /\ [][\A p \in Workers :
            pc'[p] # pc[p]
            => \A a \in DOMAIN accounts \ {req'[p].accountId} :
                  /\ accounts'[a] = accounts[a]
                  /\ {t \in journal' : t.accountId = a}
                       = {t \in journal : t.accountId = a}]_vars

\* C23 witness: two settlements on different accounts have both succeeded, and
\* each account is debited by its own amount and holds its own entry.
C23_Witness ==
    \E p \in Workers : \E q \in Workers \ {p} :
        /\ Succeeded(p) /\ Succeeded(q)
        /\ req[p].accountId # req[q].accountId
        /\ \A w \in {p, q} :
              /\ accounts[req[w].accountId].value
                   = accounts0[req[w].accountId].value - req[w].amount
              /\ JournalOf(req[w].accountId) = {outcome[w].transaction}

\* C24: the account record is written only by the debit, through a write
\* conditioned on the version: every step that changes an account record is
\* the debit's write of a settlement on that account, and every such write the
\* store accepts finds the record as the debit read it.
C24_OnlyConditionedDebitWrites ==
    [][\A a \in DOMAIN accounts :
          /\ accounts'[a] # accounts[a]
             => \E p \in Workers :
                   /\ pc[p] = "update_upsert" /\ pc'[p] = "build_transaction"
                   /\ req[p].accountId = a
          /\ \A p \in Workers :
                ( /\ pc[p] = "update_upsert" /\ pc'[p] = "build_transaction"
                  /\ req[p].accountId = a )
                => hist[p].debit_read = accounts[a]]_vars

\* C25: cancellation. A settlement whose caller gave it up once the debit had
\* started is not stopped: each of its steps still leads to the next step of
\* process_payment or to the answer that step gives; and no settlement is ever
\* answered as cancelled after it has written the account.
C25_NoCancelAfterDebit ==
    /\ [](\A p \in Workers :
            (Done(p) /\ outcome[p].error = "Cancelled") => hist[p].upserts = 0)
    /\ [][\A p \in Workers :
            ( /\ hist[p].cancelled_at \in
                    {"update_read", "update_upsert", "build_transaction",
                     "post_transaction"}
              /\ pc'[p] # pc[p] )
            => /\ outcome'[p].error # "Cancelled"
               /\ \/ \E i \in 1..(Len(StepOrder) - 1) :
                        pc[p] = StepOrder[i] /\ pc'[p] = StepOrder[i + 1]
                  \/ pc'[p] = "done" /\ outcome'[p].status \in {200, 400, 500}]_vars

\* C25 witness: a settlement given up by its caller between the debit's read
\* and its write has gone on to succeed: the account is debited and the
\* journal holds its entry.
C25_Witness ==
    \E p \in Workers :
        /\ hist[p].cancelled_at = "update_upsert"
        /\ Succeeded(p)
        /\ accounts[req[p].accountId].value < accounts0[req[p].accountId].value
        /\ outcome[p].transaction \in journal

\* C26: re-submission re-debits. When the same request has been submitted k
\* times, one after the other, and each time the debit was written and the
\* post to the Transaction API then failed, the stored balance is the initial
\* balance minus k times the amount: the request carries no identifier that
\* makes a repetition a no-op.
C26_ResubmissionDebitsAgain ==
    LET attempts == {p \in Workers : pc[p] # "idle"}
    IN  ( /\ attempts # {}
          /\ \A p \in attempts : AppendFailed(p)
          /\ \A p \in attempts : \A q \in attempts : req[p] = req[q] )
        => \A p \in attempts :
              /\ DOMAIN req[p] = {"accountId", "paymentMethodId", "beneficiaryId",
                                  "amount", "description"}
              /\ accounts[req[p].accountId].value
                   = accounts0[req[p].accountId].value
                        - Cardinality(attempts) * req[p].amount

\* C26 witness: the same request was submitted twice, the post failed both
\* times, and the balance is down by twice the amount.
C26_Witness ==
    \E p \in Workers : \E q \in Workers \ {p} :
        /\ AppendFailed(p) /\ AppendFailed(q)
        /\ req[p] = req[q]
        /\ req[p].amount > 0
        /\ accounts[req[p].accountId].value
             = accounts0[req[p].accountId].value - 2 * req[p].amount

\* C27: the debit uses its own read. Every account write of a settlement
\* stores the balance update_account_balance read just before, minus the
\* amount, and is made only when that difference is not negative; a settlement
\* whose debit read a balance smaller than the amount ends with
\* "Insufficient balance".
C27_DebitUsesItsOwnRead ==
    /\ [](\A p \in Workers :
            ( /\ Done(p) /\ hist[p].debit_read # None
              /\ hist[p].debit_read.value < req[p].amount )
            => outcome[p].error = "Insufficient balance")
    /\ [][\A p \in Workers :
            (pc[p] = "update_upsert" /\ pc'[p] = "build_transaction")
            => /\ hist[p].debit_read.value - req[p].amount >= 0
               /\ accounts'[req[p].accountId].value
                    = hist[p].debit_read.value - req[p].amount]_vars

\* C28: the container payment service. A payment that passes the validations
\* (numeric accountId; a paymentMethodId unless the type is a pure transfer,
\* numeric when given) is answered with success whatever comes of the
\* notification: at most one transaction is posted, none by a service without a
\* Transaction API URL; and no payment changes an account record, removes a
\* journal entry or adds more entries than it posted.
C28_NotificationFailuresSwallowed ==
    /\ []((/\ call.op = "Payment"
           /\ isdigit(call.request.accountId)
           /\ \/ LOWER(Characters(call.request.paymentType)) = Characters("transfer")
              \/ call.request.paymentMethodId # ""
           /\ \/ call.request.paymentMethodId = ""
              \/ isdigit(call.request.paymentMethodId))
          => /\ call.status = 200
             /\ call.store_calls <= 1
             /\ call.variant = "aca-payment-no-url" => call.store_calls = 0)
    /\ [][/\ accounts' = accounts
          /\ journal \subseteq journal'
          /\ Cardinality(journal' \ journal) <= call'.store_calls]_vars

\* C28 witness: a valid payment was answered with success although its one
\* post to the Transaction API failed and stored nothing.
C28_Witness ==
    /\ call.op = "Payment" /\ call.status = 200 /\ call.store_calls = 1
    /\ call.variant = "aca-payment"
    /\ \A t \in journal : t.id \notin Uuids

\* ------------------------------------------------------ the store client
\* cosmos_client.py of the Transaction API container, of the Inventory API
\* and of the Maintenance API.  Request workers are threads of one process;
\* the class attribute _instance and the module global are shared, and no
\* lock guards them, so a thread can be preempted between any two of the
\* steps below.  The object a thread creates is named after the thread.
ClientVariants == {"transaction", "inventory", "maintenance"}

\* The thread moves to position `to` with the shared fields changed to `c`.
Goes(t, to, c) ==
    /\ cosmos' = [c EXCEPT !.at[t] = to]
    /\ UNCHANGED <<paymentVars, journal, now, call, inventory>>

\* A request worker asks for the client: get_cosmos_client(), or
\* CosmosDBClient() in the Maintenance API, which has no accessor function.
CallClient(t) ==
    /\ cosmos.at[t] = "out"
    /\ Goes(t, IF cosmos.variant = "maintenance" THEN "new_check"
               ELSE "global_check", cosmos)

\* if _cosmos_db_client is None
GlobalCheck(t) ==
    /\ cosmos.at[t] = "global_check"
    /\ Goes(t, IF cosmos.global = 0 THEN "new_check"
               ELSE IF cosmos.variant = "inventory" THEN "database_check"
               ELSE "return", cosmos)

\* __new__: if cls._instance is None
NewCheck(t) ==
    /\ cosmos.at[t] = "new_check"
    /\ Goes(t, IF cosmos.instance = 0 THEN "new_create"
               ELSE IF cosmos.variant = "maintenance" THEN "return"
               ELSE "new_return", cosmos)

\* __new__: cls._instance = super().__new__(cls)
NewCreate(t) ==
    /\ cosmos.at[t] = "new_create"
    /\ Goes(t, "new_return", [cosmos EXCEPT !.instance = t])

\* __new__: return cls._instance, the object __init__ then runs on.  In the
\* Maintenance API __new__ has no such step for a thread that found the
\* attribute set (it returns it to the caller), and the thread that created
\* the object reads cls._instance here to call _initialize() on it.
NewReturn(t) ==
    /\ cosmos.at[t] = "new_return"
    /\ Goes(t, IF cosmos.variant = "maintenance" THEN "set_client" ELSE "init_check",
            [cosmos EXCEPT !.self[t] = cosmos.instance])

\* __init__: if self._client is None
InitCheck(t) ==
    /\ cosmos.at[t] = "init_check"
    /\ Goes(t, IF cosmos.self[t] \in cosmos.client THEN "global_assign"
               ELSE "set_client", cosmos)

\* _initialize_client: self._client = CosmosClient(...), or the exception of
\* a missing endpoint or a refused credential, which the caller receives.
SetClient(t) ==
    /\ cosmos.at[t] = "set_client"
    /\ \E ok \in BOOLEAN :
          IF ok
          THEN Goes(t, "set_database",
                    [cosmos EXCEPT !.client = @ \cup {cosmos.self[t]}])
          ELSE Goes(t, "out", [cosmos EXCEPT !.failed = TRUE])

\* _initialize_client: self._database = self._client.get_database_client(...)
\* (and the container references, in the Maintenance API).
SetDatabase(t) ==
    /\ cosmos.at[t] = "set_database"
    /\ Goes(t, IF cosmos.variant = "maintenance" THEN "return" ELSE "global_assign",
            [cosmos EXCEPT !.database = @ \cup {cosmos.self[t]},
                           !.initialised = @ + 1])

\* _cosmos_db_client = CosmosDBClient()
GlobalAssign(t) ==
    /\ cosmos.at[t] = "global_assign"
    /\ Goes(t, IF cosmos.variant = "inventory" THEN "database_check" ELSE "return",
            [cosmos EXCEPT !.global = cosmos.self[t]])

\* Inventory API: if _cosmos_client_instance._database is None: raise
DatabaseCheck(t) ==
    /\ cosmos.at[t] = "database_check"
    /\ Goes(t, IF cosmos.global \in cosmos.database THEN "return" ELSE "out",
            IF cosmos.global \in cosmos.database THEN cosmos
            ELSE [cosmos EXCEPT !.failed = TRUE])

\* return _cosmos_db_client (return cls._instance in the Maintenance API):
\* the caller receives the object, in the state it is in.
ReturnClient(t) ==
    /\ cosmos.at[t] = "return"
    /\ LET o == IF cosmos.variant = "maintenance" THEN cosmos.instance
                ELSE cosmos.global
       IN  Goes(t, "out",
                [cosmos EXCEPT !.handed = @ \cup
                    {[object |-> o, client |-> o \in cosmos.client,
                      database |-> o \in cosmos.database]}])

\* A process of any of the three services, before the first call.
\* The banking store as seeded, no request under way.
IdleBank ==
    /\ accounts = [a \in {"1010"} |-> [repr |-> "str", value |-> MaxBalance]]
    /\ accounts0 = accounts
    /\ beneficiaries = SeedBeneficiaries
    /\ journal = SeedTransactions
    /\ now = 0
    /\ pc = [p \in Workers |-> "idle"]
    /\ req = [p \in Workers |-> None]
    /\ loc = [p \in Workers |-> NoLocals]
    /\ outcome = [p \in Workers |-> NoOutcome]
    /\ hist = [p \in Workers |-> NoHistory]
    /\ call = NoCall

\* A process of any of the three services, before the first call.
InitClient ==
    /\ IdleBank
    /\ \E variant \in ClientVariants : cosmos = NoClient(variant)
    /\ inventory = NoInventory

NextClient ==
    \E t \in Workers :
        \/ CallClient(t)
        \/ GlobalCheck(t)
        \/ NewCheck(t)
        \/ NewCreate(t)
        \/ NewReturn(t)
        \/ InitCheck(t)
        \/ SetClient(t)
        \/ SetDatabase(t)
        \/ GlobalAssign(t)
        \/ DatabaseCheck(t)
        \/ ReturnClient(t)

SpecClient == InitClient /\ [][NextClient]_vars

\* C29: the store client is initialised at most once per process, and every
\* call that returns hands back the same object, with its client and its
\* database reference set, whatever the interleaving of the request workers
\* and whether or not an earlier initialisation failed.
C29_OneInitialisedClient ==
    /\ cosmos.initialised <= 1
    /\ \A h \in cosmos.handed : h.client /\ h.database
    /\ \A g, h \in cosmos.handed : g.object = h.object

\* ------------------------------------------------------ inventory reserve
\* POST /inventory/reserve of the Inventory API (reserve_items).
\* Largest stock quantity of an item.
MaxStock == 2

\* The item the inventory-items container holds, and an id it does not hold.
StockedItems == {"PART-001"}
UnknownItems == {"PART-999"}

\* Request bodies; quantity 0 stands for the bodies ReservationRequest
\* refuses (quantity: int, gt=0).
ReservationRequests ==
    [item_id : StockedItems \cup UnknownItems, quantity : 0..(MaxStock + 1)]

\* f"RES-{now.strftime('%Y%m%d-%H%M%S')}": one id per second of the clock.
ReservationId(second) == <<"RES", second>>

\* seed_reservations: one confirmed reservation of PART-001, under the id
\* "RES-20231001-001", which no later second of the clock produces.
SeedReservation(quantity) ==
    [id |-> ReservationId(-1), item_id |-> "PART-001", quantity |-> quantity,
     status |-> "confirmed"]

RECURSIVE TotalQuantity(_)
TotalQuantity(docs) ==
    IF docs = {} THEN 0
    ELSE LET d == CHOOSE x \in docs : TRUE
         IN  d.quantity + TotalQuantity(docs \ {d})

\* Total quantity of the confirmed reservations of an item.
ConfirmedQuantity(item_id) ==
    TotalQuantity({d \in inventory.reservations :
                      d.item_id = item_id /\ d.status = "confirmed"})

\* The response of reserve_items to request r.
Reserved(r, status, raised, body, store_calls) ==
    Served("inventory", "POST /inventory/reserve", r.item_id, None, "", r,
           status, raised, body, store_calls)

\* reserve_items up to the stock check: the body is validated, the item is
\* queried by item_id, and the requested quantity is compared with the
\* item's stock_quantity.
ReserveCheck(p) ==
    /\ inventory.at[p] = "idle"
    /\ \E r \in ReservationRequests :
          IF r.quantity <= 0
          THEN /\ call' = Reserved(r, 400, "ValidationError", <<>>, 0)
               /\ UNCHANGED inventory
          ELSE IF r.item_id \notin DOMAIN inventory.items
          THEN /\ call' = Reserved(r, 404, "", <<"Item not found">>, 1)
               /\ UNCHANGED inventory
          ELSE IF inventory.items[r.item_id] < r.quantity
          THEN /\ call' = Reserved(r, 400, "", <<"Insufficient stock">>, 1)
               /\ UNCHANGED inventory
          ELSE /\ inventory' = [inventory EXCEPT !.at[p] = "create",
                                                 !.request[p] = r]
               /\ UNCHANGED call
    /\ UNCHANGED <<paymentVars, journal, now, cosmos>>

\* reserve_items from "Create reservation" on: the id is made from the clock
\* and the document is created with status "confirmed".  create_item refuses
\* an id the partition (item_id) already holds, which the handler answers
\* with 500.  The stock quantity of the item is left as it is.
ReserveCreate(p) ==
    /\ inventory.at[p] = "create"
    /\ \E elapsed \in {0, 1} :
          /\ now + elapsed <= MaxAppends
          /\ now' = now + elapsed
          /\ LET r == inventory.request[p]
                 doc == [id |-> ReservationId(now'), item_id |-> r.item_id,
                         quantity |-> r.quantity, status |-> "confirmed"]
                 taken == \E d \in inventory.reservations :
                              d.id = doc.id /\ d.item_id = doc.item_id
                 back == [inventory EXCEPT !.at[p] = "idle", !.request[p] = None]
             IN  IF taken
                 THEN /\ call' = Reserved(r, 500, "CosmosResourceExistsError", <<>>, 2)
                      /\ inventory' = back
                 ELSE /\ call' = Reserved(r, 200, "", <<doc>>, 2)
                      /\ inventory' =
                            [back EXCEPT !.reservations = @ \cup {doc}]
    /\ UNCHANGED <<paymentVars, journal, cosmos>>

\* The inventory store as seeded: the item with some stock and at most one
\* confirmed reservation, within the stock.
InitInventory ==
    /\ IdleBank
    /\ cosmos = NoClient("inventory")
    /\ \E stock \in 0..MaxStock : \E reserved \in 0..stock :
          inventory =
             [NoInventory EXCEPT
                 !.items = [i \in StockedItems |-> stock],
                 !.reservations = IF reserved = 0 THEN {}
                                  ELSE {SeedReservation(reserved)}]

NextInventory == \E p \in Workers : ReserveCheck(p) \/ ReserveCreate(p)

SpecInventory == InitInventory /\ [][NextInventory]_vars

\* C30: reservations never over-commit stock.  The confirmed reservations of
\* an item never total more than its stock quantity, and a well-formed
\* request for an unknown item (404) or for more than the stock (400) is
\* rejected and creates no reservation.
C30_NoOverCommit ==
    /\ [](/\ \A i \in DOMAIN inventory.items :
                ConfirmedQuantity(i) <= inventory.items[i]
          /\ (call.variant = "inventory" /\ call.request.quantity > 0) =>
                /\ call.request.item_id \notin DOMAIN inventory.items
                      => call.status = 404
                /\ (/\ call.request.item_id \in DOMAIN inventory.items
                    /\ call.request.quantity
                          > inventory.items[call.request.item_id])
                      => call.status = 400)
    /\ [][inventory'.reservations # inventory.reservations =>
             /\ call'.status = 200
             /\ call'.request.item_id \in DOMAIN inventory.items
             /\ call'.request.quantity <= inventory.items[call'.request.item_id]]_vars

====
